---------------------------- MODULE Spec2Model ----------------------------
(***************************************************************************)
(* Model of the Digital Krishi backend (src/main.py): a FastAPI process    *)
(* with four handlers (read_root, get_weather, chat_with_ai, list_models)  *)
(* that relay requests to a weather provider and to a generative-AI        *)
(* provider.                                                               *)
(*                                                                         *)
(* Text is modelled as a sequence of atoms.  Image payloads, keys and      *)
(* locations are sequences of single characters, so that the substring     *)
(* search and the split on "base64," work as Python's do.  Prompts and     *)
(* the system instruction are sequences of words.  An Optional[str] is a   *)
(* record [some, val]; None is the record with some = FALSE.  Characters   *)
(* outside ASCII are written as their code points.                         *)
(***************************************************************************)
EXTENDS Integers, Sequences, FiniteSets, TLC

VARIABLES
    GEMINI_API_KEY,   \* os.getenv("GEMINI_API_KEY"), read once at start-up
    WEATHER_API_KEY,  \* os.getenv("WEATHER_API_KEY"), read once at start-up
    pc,               \* position of the request being handled
    request,          \* the request being handled
    calls,            \* outbound calls made for this request, in order
    reply,            \* what the provider answered to the outbound call
    responses         \* HTTP responses produced for this request, in order

vars == <<GEMINI_API_KEY, WEATHER_API_KEY, pc, request, calls, reply, responses>>

(***************************************************************************)
(* Bounds of the model.                                                    *)
(***************************************************************************)
\* An image payload is a concatenation of at most MaxPieces pieces.
MaxPieces == 3

(***************************************************************************)
(* Python values.                                                          *)
(***************************************************************************)
None == [some |-> FALSE, val |-> <<>>]

Some(v) == [some |-> TRUE, val |-> v]

\* Python truthiness of an Optional[str]: None and "" are falsy.
Truthy(o) == o.some /\ o.val # <<>>

\* The positions at which p occurs in s.
Occurrences(s, p) ==
    {i \in 1..(Len(s) - Len(p) + 1) : SubSeq(s, i, i + Len(p) - 1) = p}

\* str.find, 1-based; 0 when p does not occur in s.
Find(s, p) ==
    IF Occurrences(s, p) = {} THEN 0
    ELSE CHOOSE i \in Occurrences(s, p) : \A j \in Occurrences(s, p) : i <= j

\* Python's `p in s`.
Contains(s, p) == Find(s, p) # 0

\* str.split(sep) for a non-empty sep: cuts at every occurrence of sep,
\* scanning from the left.
RECURSIVE Split(_, _)
Split(s, sep) ==
    IF Find(s, sep) = 0 THEN <<s>>
    ELSE <<SubSeq(s, 1, Find(s, sep) - 1)>>
         \o Split(SubSeq(s, Find(s, sep) + Len(sep), Len(s)), sep)

(***************************************************************************)
(* Configuration and literals of src/main.py.                              *)
(***************************************************************************)
WEATHER_API_BASE == <<"https://api.weatherapi.com/v1">>

Base64Marker == <<"b", "a", "s", "e", "6", "4", ",">>

WeatherKeyMissingDetail == <<"Weather API Key missing on server">>

WeatherFetchFailedDetail == <<"Failed to fetch weather">>

GeminiKeyMissingDetail == <<"Gemini API Key missing on server">>

ImageApologyText ==
    <<"Error processing image. Please try text only or check the image format.">>

RootStatus == <<"Digital Krishi Backend Running">>

EnglishDirective == <<"Reply", "in", "English.">>

HindiDirective ==
    <<"Reply", "in", "Hindi", "using", "Devanagari", "script.",
      "Use", "simple", "farming", "terminology.">>

KannadaDirective ==
    <<"Reply", "in", "Kannada", "(U+0C95 U+0CA8 U+0CCD U+0CA8 U+0CA1).",
      "Use", "simple", "farming", "terminology.">>

TeluguDirective ==
    <<"Reply", "in", "Telugu", "(U+0C24 U+0C46 U+0C32 U+0C41 U+0C17 U+0C41).",
      "Use", "simple", "farming", "terminology.">>

SystemHead ==
    <<"You are a Digital Krishi Officer (Agricultural Expert). Your goal is to help Indian farmers with: 1. Crop disease identification. 2. Treatment recommendations. 3. Fertilizer advice. 4. General farming tips.">>

SystemTail ==
    <<"Format your response nicely with headings and bullet points using Markdown. Keep the tone helpful, encouraging, and easy to understand.">>

(***************************************************************************)
(* Inputs.                                                                 *)
(***************************************************************************)
\* The environment variable is unset, set to the empty string, or set.
KeyValues == {None, Some(<<>>), Some(<<"k", "1">>)}

Locations == {<<>>, <<"K", "o", "c", "h", "i">>}

Prompts == {<<>>, <<"leaf", "is", "yellow">>}

Languages == {"en", "hi", "kn", "te", "HI", "fr"}

\* The pieces image payloads are made of: a data-URI header, the marker,
\* the marker without its comma, and base64 data.
Pieces ==
    { <<"d", "a", "t", "a", ":", "i", "m", "a", "g", "e", "/", "p", "n", "g", ";">>,
      Base64Marker,
      <<"b", "a", "s", "e", "6", "4">>,
      <<"Q", "U", "I", "=">> }

RECURSIVE PayloadsOf(_)
PayloadsOf(n) ==
    IF n = 0 THEN {<<>>}
    ELSE PayloadsOf(n - 1)
         \cup {p \o q : p \in PayloadsOf(n - 1), q \in Pieces}

\* ChatRequest.image: Optional[str] = None
Images == {None} \cup {Some(p) : p \in PayloadsOf(MaxPieces)}

ErrorMessages == {<<"timeout">>, <<"403 Forbidden">>}

GeneratedTexts == {<<"## Advice">>}

UpstreamJson == {<<"{forecast}">>}

ModelNames == {<<"models/gemini-2.5-flash-lite", "models/gemini-pro">>}

NoRequest ==
    [handler |-> "none", location |-> <<>>, prompt |-> <<>>,
     image |-> None, language |-> "en"]

NoReply == [result |-> "none", body |-> <<>>]

Failure(kind, msg) == [result |-> kind, body |-> msg]

Success(body) == [result |-> "ok", body |-> body]

Part(kind, mime, data) == [kind |-> kind, mime_type |-> mime, data |-> data]

Call(api, parts) == [api |-> api, parts |-> parts]

Response(status, field, body) == [status |-> status, field |-> field, body |-> body]

(***************************************************************************)
(* get_weather                                                             *)
(***************************************************************************)
\* Variant: `if WEATHER_API_KEY is None`, which lets an empty key through.
get_weather_key_missing_is_none == ~WEATHER_API_KEY.some

\* if not WEATHER_API_KEY
get_weather_key_missing == ~Truthy(WEATHER_API_KEY)

weather_url(location) ==
    WEATHER_API_BASE \o <<"/forecast.json?key=">> \o WEATHER_API_KEY.val
    \o <<"&q=">> \o location \o <<"&days=3&aqi=no&alerts=no">>

\* Variant: the upstream message is appended to the detail.
weather_error_response_leaks(e) ==
    Response(500, "detail", WeatherFetchFailedDetail \o e)

\* except Exception as e: raise HTTPException(500, "Failed to fetch weather")
weather_error_response(e) == Response(500, "detail", WeatherFetchFailedDetail)

(***************************************************************************)
(* chat_with_ai                                                            *)
(***************************************************************************)
\* if not GEMINI_API_KEY
chat_key_missing == ~Truthy(GEMINI_API_KEY)

\* Variant: the language code is matched without regard to case.
lang_instruction_casefold(language) ==
    IF language \in {"hi", "HI"} THEN HindiDirective
    ELSE IF language = "kn" THEN KannadaDirective
    ELSE IF language = "te" THEN TeluguDirective
    ELSE EnglishDirective

lang_instruction(language) ==
    IF language = "hi" THEN HindiDirective
    ELSE IF language = "kn" THEN KannadaDirective
    ELSE IF language = "te" THEN TeluguDirective
    ELSE EnglishDirective

system_instruction(language) ==
    SystemHead \o lang_instruction(language) \o SystemTail

\* Variant: the prompt is put before the system instruction.
final_prompt_swapped(language, prompt) ==
    <<Part("text", "", prompt), Part("text", "", system_instruction(language))>>

\* final_prompt = [system_instruction, request.prompt]
final_prompt(language, prompt) ==
    <<Part("text", "", system_instruction(language)), Part("text", "", prompt)>>

\* image_data = request.image; if "base64," in image_data: split(...)[1]
image_data(image) ==
    IF Contains(image, Base64Marker) THEN Split(image, Base64Marker)[2]
    ELSE image

\* Variant: the text part is put before the image part.
content_parts_text_first(language, prompt, image) ==
    <<Part("text", "", system_instruction(language) \o <<"\n\n">> \o prompt),
      Part("blob", "image/jpeg", image_data(image))>>

content_parts(language, prompt, image) ==
    <<Part("blob", "image/jpeg", image_data(image)),
      Part("text", "", system_instruction(language) \o <<"\n\n">> \o prompt)>>

\* Variant: no inner try, the image failure reaches the outer except.
image_error_response_propagates(e) ==
    Response(500, "detail", <<"AI Service Error: ">> \o e)

\* except Exception as img_err: return {"response": "Error processing image..."}
image_error_response(e) == Response(200, "response", ImageApologyText)

\* Variant: the failure is returned as a 200 with an error field.
chat_error_response_soft(e) == Response(200, "error", e)

\* except Exception as e: raise HTTPException(500, f"AI Service Error: {str(e)}")
chat_error_response(e) == Response(500, "detail", <<"AI Service Error: ">> \o e)

(***************************************************************************)
(* list_models                                                             *)
(***************************************************************************)
\* Variant: the failure is raised as an HTTP 500.
list_models_error_response_raises(e) == Response(500, "detail", e)

\* except Exception as e: return {"error": str(e)}
list_models_error_response(e) == Response(200, "error", e)

(***************************************************************************)
(* The state machine.                                                      *)
(***************************************************************************)
Init ==
    /\ GEMINI_API_KEY \in KeyValues
    /\ WEATHER_API_KEY \in KeyValues
    /\ pc = "idle"
    /\ request = NoRequest
    /\ calls = <<>>
    /\ reply = NoReply
    /\ responses = <<>>

Config == <<GEMINI_API_KEY, WEATHER_API_KEY>>

\* The framework routes a request to its handler.
Receive(req) ==
    /\ pc = "idle"
    /\ pc' = req.handler
    /\ request' = req
    /\ UNCHANGED <<Config, calls, reply, responses>>

ReceiveRoot == Receive([NoRequest EXCEPT !.handler = "root"])

ReceiveWeather ==
    \E location \in Locations :
        Receive([NoRequest EXCEPT !.handler = "weather", !.location = location])

ReceiveChat ==
    \E prompt \in Prompts, image \in Images, language \in Languages :
        Receive([NoRequest EXCEPT !.handler = "chat", !.prompt = prompt,
                                  !.image = image, !.language = language])

ReceiveModels == Receive([NoRequest EXCEPT !.handler = "models"])

\* The handler returns or raises: the request ends with this response.
Finish(resp) ==
    /\ pc' = "done"
    /\ responses' = Append(responses, resp)

read_root ==
    /\ pc = "root"
    /\ Finish(Response(200, "status", RootStatus))
    /\ UNCHANGED <<Config, request, calls, reply>>

get_weather_no_key ==
    /\ pc = "weather"
    /\ get_weather_key_missing
    /\ Finish(Response(500, "detail", WeatherKeyMissingDetail))
    /\ UNCHANGED <<Config, request, calls, reply>>

\* requests.get(url) is sent.
get_weather_call ==
    /\ pc = "weather"
    /\ ~get_weather_key_missing
    /\ calls' = Append(calls, Call("weather",
                   <<Part("url", "", weather_url(request.location))>>))
    /\ pc' = "weather_wait"
    /\ UNCHANGED <<Config, request, reply, responses>>

\* requests.get raises, raise_for_status raises, response.json() raises,
\* or the body is returned as it came.
get_weather_return ==
    /\ pc = "weather_wait"
    /\ \E r \in {Success(j) : j \in UpstreamJson}
              \cup {Failure(k, e) : k \in {"transport", "http_status", "bad_body"},
                                    e \in ErrorMessages} :
        /\ reply' = r
        /\ Finish(IF r.result = "ok" THEN Response(200, "json", r.body)
                  ELSE weather_error_response(r.body))
    /\ UNCHANGED <<Config, request, calls>>

chat_no_key ==
    /\ pc = "chat"
    /\ chat_key_missing
    /\ Finish(Response(500, "detail", GeminiKeyMissingDetail))
    /\ UNCHANGED <<Config, request, calls, reply>>

\* genai.GenerativeModel(...) raises inside the outer try.
chat_model_init_fails ==
    /\ pc = "chat"
    /\ ~chat_key_missing
    /\ \E e \in ErrorMessages :
        /\ reply' = Failure("init_raise", e)
        /\ Finish(chat_error_response(e))
    /\ UNCHANGED <<Config, request, calls>>

\* if request.image: model.generate_content(content_parts) is sent.
chat_image_call ==
    /\ pc = "chat"
    /\ ~chat_key_missing
    /\ Truthy(request.image)
    /\ calls' = Append(calls, Call("generate_content",
                   content_parts(request.language, request.prompt, request.image.val)))
    /\ pc' = "chat_image_wait"
    /\ UNCHANGED <<Config, request, reply, responses>>

\* Variant: after an image failure the handler goes on to the text-only call.
chat_image_return_falls_back ==
    /\ pc = "chat_image_wait"
    /\ \E r \in {Success(t) : t \in GeneratedTexts}
              \cup {Failure(k, e) : k \in {"raise", "text_raise"}, e \in ErrorMessages} :
        /\ reply' = r
        /\ IF r.result = "ok"
           THEN Finish(Response(200, "response", r.body)) /\ calls' = calls
           ELSE /\ calls' = Append(calls, Call("generate_content",
                               final_prompt(request.language, request.prompt)))
                /\ pc' = "chat_text_wait"
                /\ responses' = responses
    /\ UNCHANGED <<Config, request>>

\* generate_content raises, response.text raises, or the text is returned.
chat_image_return ==
    /\ pc = "chat_image_wait"
    /\ \E r \in {Success(t) : t \in GeneratedTexts}
              \cup {Failure(k, e) : k \in {"raise", "text_raise"}, e \in ErrorMessages} :
        /\ reply' = r
        /\ Finish(IF r.result = "ok" THEN Response(200, "response", r.body)
                  ELSE image_error_response(r.body))
    /\ UNCHANGED <<Config, request, calls>>

\* Text only: model.generate_content(final_prompt) is sent.
chat_text_call ==
    /\ pc = "chat"
    /\ ~chat_key_missing
    /\ ~Truthy(request.image)
    /\ calls' = Append(calls, Call("generate_content",
                   final_prompt(request.language, request.prompt)))
    /\ pc' = "chat_text_wait"
    /\ UNCHANGED <<Config, request, reply, responses>>

chat_text_return ==
    /\ pc = "chat_text_wait"
    /\ \E r \in {Success(t) : t \in GeneratedTexts}
              \cup {Failure(k, e) : k \in {"raise", "text_raise"}, e \in ErrorMessages} :
        /\ reply' = r
        /\ Finish(IF r.result = "ok" THEN Response(200, "response", r.body)
                  ELSE chat_error_response(r.body))
    /\ UNCHANGED <<Config, request, calls>>

\* genai.list_models() is called; the handler does not look at the key.
list_models_call ==
    /\ pc = "models"
    /\ calls' = Append(calls, Call("list_models", <<>>))
    /\ pc' = "models_wait"
    /\ UNCHANGED <<Config, request, reply, responses>>

list_models_return ==
    /\ pc = "models_wait"
    /\ \E r \in {Success(m) : m \in ModelNames}
              \cup {Failure("raise", e) : e \in ErrorMessages} :
        /\ reply' = r
        /\ Finish(IF r.result = "ok" THEN Response(200, "models", r.body)
                  ELSE list_models_error_response(r.body))
    /\ UNCHANGED <<Config, request, calls>>

\* The response has gone out; the next request starts from nothing.
Complete ==
    /\ pc = "done"
    /\ pc' = "idle"
    /\ request' = NoRequest
    /\ calls' = <<>>
    /\ reply' = NoReply
    /\ responses' = <<>>
    /\ UNCHANGED Config

Next ==
    \/ ReceiveRoot
    \/ ReceiveWeather
    \/ ReceiveChat
    \/ ReceiveModels
    \/ read_root
    \/ get_weather_no_key
    \/ get_weather_call
    \/ get_weather_return
    \/ chat_no_key
    \/ chat_model_init_fails
    \/ chat_image_call
    \/ chat_image_return
    \/ chat_text_call
    \/ chat_text_return
    \/ list_models_call
    \/ list_models_return
    \/ Complete

Spec == Init /\ [][Next]_vars

(***************************************************************************)
(* Properties.                                                             *)
(***************************************************************************)
IsChat == request.handler = "chat"

IsWeather == request.handler = "weather"

IsModels == request.handler = "models"

Failed == reply.result \notin {"none", "ok"}

\* The provider call itself failed (as opposed to the model construction).
ProviderFailed == reply.result \in {"raise", "text_raise"}

\* The part of s that follows the first occurrence of p.
AfterFirst(s, p) == SubSeq(s, Find(s, p) + Len(p), Len(s))

\* The system instruction as it reached the provider: a part of its own in
\* the text-only form, the text before "\n\n" + prompt in the image form.
SentInstruction ==
    IF calls[1].parts[1].kind = "text" THEN calls[1].parts[1].data
    ELSE SubSeq(calls[1].parts[2].data, 1,
                Len(calls[1].parts[2].data) - Len(request.prompt) - 1)

ImageForm ==
    <<Part("blob", "image/jpeg", calls[1].parts[1].data),
      Part("text", "", system_instruction(request.language)
                       \o <<"\n\n">> \o request.prompt)>>

TextOnlyForm ==
    <<Part("text", "", system_instruction(request.language)),
      Part("text", "", request.prompt)>>

\* C1: a chat request whose image branch was entered and whose provider call
\* (or the reading of its text) raised ends with exactly one response, HTTP
\* 200 with the fixed apology text in 'response'; never HTTP 500.
C1_ImageFailureSoftFails ==
    (pc = "done" /\ IsChat /\ Truthy(request.image) /\ ProviderFailed)
        => /\ responses = <<Response(200, "response", ImageApologyText)>>
           /\ \A i \in DOMAIN responses : responses[i].status # 500

C1_Witness ==
    /\ pc = "done" /\ IsChat /\ Truthy(request.image)
    /\ reply.result = "text_raise"
    /\ responses = <<Response(200, "response", ImageApologyText)>>

C3_WeatherKeyMissing ==
    (IsWeather /\ ~Truthy(WEATHER_API_KEY))
        => /\ calls = <<>>
           /\ pc = "done"
                => responses = <<Response(500, "detail", WeatherKeyMissingDetail)>>

C3_Witness ==
    /\ pc = "done" /\ IsWeather
    /\ WEATHER_API_KEY = Some(<<>>)
    /\ request.location # <<>>
    /\ calls = <<>>
    /\ responses[1].status = 500

\* C4: with the weather key present, every failure of the outbound weather
\* call (transport, status, body) ends with HTTP 500 and the same detail,
\* "Failed to fetch weather", which holds nothing of the upstream error and
\* differs from the key-missing detail.
C4_WeatherFailureIsGeneric ==
    (pc = "done" /\ IsWeather /\ Truthy(WEATHER_API_KEY) /\ Failed)
        => /\ responses = <<Response(500, "detail", <<"Failed to fetch weather">>)>>
           /\ ~Contains(responses[1].body, reply.body)
           /\ responses[1].body # WeatherKeyMissingDetail

C4_Witness ==
    /\ pc = "done" /\ IsWeather
    /\ reply.result = "bad_body"
    /\ responses[1].status = 500

\* C5: the image data sent to the provider is the part of the payload after
\* the first "base64," when the payload contains it (also when it contains
\* it more than once), and the payload unchanged otherwise.
C5_ImageDataAfterFirstMarker ==
    (IsChat /\ Truthy(request.image) /\ calls # <<>>)
        => calls[1].parts[1].data =
              IF Contains(request.image.val, Base64Marker)
              THEN AfterFirst(request.image.val, Base64Marker)
              ELSE request.image.val

\* C6: the system instruction sent for a chat request contains the Hindi
\* directive exactly when language is 'hi', the Kannada one exactly when
\* 'kn', the Telugu one exactly when 'te', and the English one for every
\* other value; the language value never makes the request fail.
C6_LanguageDirective ==
    (IsChat /\ calls # <<>>)
        => /\ Contains(SentInstruction, HindiDirective) <=> request.language = "hi"
           /\ Contains(SentInstruction, KannadaDirective) <=> request.language = "kn"
           /\ Contains(SentInstruction, TeluguDirective) <=> request.language = "te"
           /\ Contains(SentInstruction, EnglishDirective)
                 <=> request.language \notin {"hi", "kn", "te"}
           /\ (pc = "done" /\ reply.result = "ok") => responses[1].status = 200

C6_Witness ==
    /\ pc = "done" /\ IsChat
    /\ request.language = "HI"
    /\ reply.result = "ok"
    /\ Contains(SentInstruction, EnglishDirective)
    /\ responses[1].status = 200

\* C7: for a chat request without an image (key present) the one outbound
\* call has exactly two parts, the system instruction for the language and
\* then the prompt unchanged; on success the generated text is returned in
\* 'response'.
C7_TextOnlyParts ==
    (IsChat /\ ~Truthy(request.image) /\ calls # <<>>)
        => /\ calls = <<Call("generate_content", TextOnlyForm)>>
           /\ Len(calls[1].parts) = 2
           /\ calls[1].parts[2].data = request.prompt
           /\ (pc = "done" /\ reply.result = "ok")
                 => responses = <<Response(200, "response", reply.body)>>

C7_Witness ==
    /\ pc = "done" /\ IsChat
    /\ request.image = None
    /\ request.language = "hi"
    /\ request.prompt = <<"leaf", "is", "yellow">>
    /\ reply.result = "ok"
    /\ Len(calls) = 1

\* C8 as stated: for a chat request with any supplied image value, the empty
\* string included, the outbound call has the image part tagged image/jpeg
\* first and the text part (instruction, two newlines, prompt) second, and
\* the text-only form is never sent.
C8_AnySuppliedImage ==
    (IsChat /\ request.image.some /\ calls # <<>>)
        => /\ calls = <<Call("generate_content", ImageForm)>>
           /\ calls[1].parts # TextOnlyForm

\* C8 amended: the same for every chat request with a non-empty image value.
C8_NonEmptyImage ==
    (IsChat /\ Truthy(request.image) /\ calls # <<>>)
        => /\ calls = <<Call("generate_content", ImageForm)>>
           /\ Len(calls[1].parts) = 2
           /\ calls[1].parts[1].mime_type = "image/jpeg"
           /\ calls[1].parts # TextOnlyForm

C8_Witness ==
    /\ IsChat /\ pc = "chat_image_wait"
    /\ Contains(request.image.val, <<"p", "n", "g">>)
    /\ calls[1].parts[1].mime_type = "image/jpeg"

\* C9: the model-list handler always ends with HTTP 200: with the list of
\* model identifiers on success, with an 'error' field holding the failure
\* message when the enumeration fails, whether or not a key is configured.
C9_ListModelsNeverErrors ==
    (pc = "done" /\ IsModels)
        => /\ Len(responses) = 1
           /\ responses[1].status = 200
           /\ Failed => responses = <<Response(200, "error", reply.body)>>
           /\ reply.result = "ok" => responses = <<Response(200, "models", reply.body)>>

C9_Witness ==
    /\ pc = "done" /\ IsModels
    /\ ~Truthy(GEMINI_API_KEY)
    /\ Failed
    /\ responses[1].field = "error"

\* C10: nothing is retried: a request makes at most one outbound call, a
\* failure ends the request at once (no further call, no fall-back from the
\* image branch to the text-only call), and a finished request has produced
\* exactly one response.
C10_NoRetry ==
    /\ Len(calls) <= 1
    /\ Len(responses) <= 1
    /\ pc = "done" <=> Len(responses) = 1
    /\ Failed => pc = "done"
    /\ (IsChat /\ Truthy(request.image) /\ calls # <<>>)
          => calls[1].parts # TextOnlyForm

C10_Witness ==
    /\ pc = "done" /\ IsChat
    /\ Truthy(request.image)
    /\ reply.result = "raise"
    /\ Len(calls) = 1
    /\ Len(responses) = 1

=============================================================================
